---- MODULE Spec2Model ----
(***************************************************************************)
(* The UTXO ledger of src/src/index.ts: the POST /blocks handler           *)
(* (validation of height, block id and per-transaction sums, then the      *)
(* BEGIN..COMMIT apply), over the five tables of createTables.             *)
(* The rollback and balance endpoints are exercised by the tests in        *)
(* src/unnamed/part_000 but their handlers are not part of the sources;    *)
(* they are modelled from section 4.3 of the specification.                *)
(***************************************************************************)
EXTENDS Integers, Sequences, FiniteSets, TLC

\* ------------------------------------------------------------------------
\* Bounds of the model
\* ------------------------------------------------------------------------
MaxHeight == 2
MaxValue == 2
MaxTxs == 2
MaxInputs == 2
MaxOutputs == 2

Clients == {"c1", "c2"}

TxIdSeq == <<"tx1", "tx2", "tx3">>
TxIds == {TxIdSeq[i] : i \in 1..Len(TxIdSeq)}
AddressSeq == <<"addr1", "addr2">>
Addresses == {AddressSeq[i] : i \in 1..Len(AddressSeq)}

\* ------------------------------------------------------------------------
\* The ledger: the five tables of createTables
\* ------------------------------------------------------------------------
VARIABLES
    blocks,         \* rows [id, height]; id PRIMARY KEY, height UNIQUE
    transactions,   \* rows [id, block_id]; id PRIMARY KEY
    outputs,        \* rows [tx_id, output_index, address, value, spent]
    inputs,         \* rows [tx_id, referenced_tx_id, referenced_output_index], in insertion order
    balances,       \* address -> balance, one entry per row; address PRIMARY KEY
    hist,           \* hist[h]: the block applied at height h and the committed ledger right after it
    last,           \* the latest completed request and its reply (sequential clients)
    reqs,           \* reqs[c]: the request of concurrent client c that is in flight
    base            \* the committed ledger when the latest concurrent request started

ledgerVars == <<blocks, transactions, outputs, inputs, balances>>
vars == <<blocks, transactions, outputs, inputs, balances, hist, last, reqs, base>>

Ledger ==
    [blocks |-> blocks, transactions |-> transactions, outputs |-> outputs,
     inputs |-> inputs, balances |-> balances]

EmptyLedger ==
    [blocks |-> {}, transactions |-> {}, outputs |-> {}, inputs |-> <<>>,
     balances |-> <<>>]

\* ------------------------------------------------------------------------
\* Replies of the handlers
\* ------------------------------------------------------------------------
Success == [status |-> 200, success |-> TRUE, error |-> ""]

Failure(message) == [status |-> 400, success |-> FALSE, error |-> message]

\* ------------------------------------------------------------------------
\* Pure helpers of POST /blocks
\* ------------------------------------------------------------------------
RECURSIVE join(_)
join(ids) == IF ids = <<>> THEN "" ELSE Head(ids) \o join(Tail(ids))

\* SHA-256 is taken to be collision free: the digest stands for its preimage.
sha256(s) == "sha256:" \o s

txIdsOf(block) == [i \in 1..Len(block.transactions) |-> block.transactions[i].id]

blockId(height, txIds) == sha256(ToString(height) \o join(txIds))

RECURSIVE sumValues(_)
sumValues(outs) == IF outs = <<>> THEN 0 ELSE Head(outs).value + sumValues(Tail(outs))

\* Fault variant: the query orders by height ascending.
lowestHeight(L) ==
    IF L.blocks = {} THEN 0
    ELSE CHOOSE h \in {b.height : b \in L.blocks} :
             \A b \in L.blocks : b.height >= h

lastHeight(L) ==
    IF L.blocks = {} THEN 0
    ELSE CHOOSE h \in {b.height : b \in L.blocks} :
             \A b \in L.blocks : b.height <= h

utxoRows(L, txId, index) ==
    {o \in L.outputs : o.tx_id = txId /\ o.output_index = index}

refText(input) == input.txId \o ":" \o ToString(input.index)

HeightError(n) == "Block height must be " \o ToString(n)
BlockIdError == "Invalid block id"
InputNotFoundError(input) == "Input not found: " \o refText(input)
InputSpentError(input) == "Input already spent: " \o refText(input)
SumError(tx) == "Input/output sum mismatch in transaction " \o tx.id
BlocksPkeyError == "duplicate key value violates unique constraint blocks_pkey"
BlocksHeightKeyError == "duplicate key value violates unique constraint blocks_height_key"
TransactionsPkeyError == "duplicate key value violates unique constraint transactions_pkey"

\* ------------------------------------------------------------------------
\* A request to POST /blocks in flight: the handler's position and locals.
\*   pc = "height"  about to run the height query (and the id check after it)
\*   pc = "input"   about to run the SELECT for input ii of transaction ti
\*   pc = "begin"   validated; about to BEGIN and INSERT INTO blocks
\*   pc = "tx"      inside the database transaction, about to apply transaction ti
\*   pc = "commit"  about to COMMIT
\*   pc = "done"    reply sent
\* work is the ledger as the request's own database transaction sees it.
\* ------------------------------------------------------------------------
NoReply == [status |-> 0, success |-> FALSE, error |-> ""]

NewRequest(block) ==
    [pc |-> "height", block |-> block, ti |-> 1, ii |-> 1, inputSum |-> 0,
     work |-> EmptyLedger, reply |-> NoReply, with |-> {}]

Reject(req, message) ==
    [req EXCEPT !.pc = "done", !.reply = Failure(message)]

\* The handler's own computation between two queries of step 3: the coinbase
\* exemption, the end of a transaction's input loop with its sum comparison,
\* and the move to the next transaction.
\* Fault variant: only an excess of outputs over inputs is refused.
sumsDifferOnlyUpwards(inputSum, tx) == inputSum < sumValues(tx.outputs)

\* Fault variant: the sums are not compared.
sumsNeverDiffer(inputSum, tx) == FALSE

sumsDiffer(inputSum, tx) == inputSum # sumValues(tx.outputs)

\* Fault variant: a transaction without inputs is exempt at every height.
RECURSIVE settleExemptAtAnyHeight(_)
settleExemptAtAnyHeight(req) ==
    LET txs == req.block.transactions IN
    IF req.ti > Len(txs) THEN [req EXCEPT !.pc = "begin"]
    ELSE LET tx == txs[req.ti]
             nextTx == [req EXCEPT !.ti = @ + 1, !.ii = 1, !.inputSum = 0]
         IN  IF Len(tx.inputs) = 0 THEN settleExemptAtAnyHeight(nextTx)
             ELSE IF req.ii <= Len(tx.inputs) THEN [req EXCEPT !.pc = "input"]
             ELSE IF sumsDiffer(req.inputSum, tx) THEN Reject(req, SumError(tx))
             ELSE settleExemptAtAnyHeight(nextTx)

RECURSIVE Settle(_)
Settle(req) ==
    LET txs == req.block.transactions IN
    IF req.ti > Len(txs) THEN [req EXCEPT !.pc = "begin"]
    ELSE LET tx == txs[req.ti]
             nextTx == [req EXCEPT !.ti = @ + 1, !.ii = 1, !.inputSum = 0]
         IN  IF req.block.height = 1 /\ Len(tx.inputs) = 0 THEN Settle(nextTx)
             ELSE IF req.ii <= Len(tx.inputs) THEN [req EXCEPT !.pc = "input"]
             ELSE IF sumsDiffer(req.inputSum, tx) THEN Reject(req, SumError(tx))
             ELSE Settle(nextTx)

\* Fault variant: a block above the next height passes.
heightNotBelowNext(L, block) == block.height >= lastHeight(L) + 1

heightOk(L, block) == block.height = lastHeight(L) + 1

\* Fault variant: the id of the same transactions at any height passes.
idOkWithoutHeight(block) ==
    block.id \in {blockId(h, txIdsOf(block)) : h \in 1..(MaxHeight + 2)}

idOk(block) == block.id = blockId(block.height, txIdsOf(block))

\* Fault variant: the id comparison comes before the height query.
checkIdThenHeight(L, req) ==
    IF ~idOk(req.block) THEN Reject(req, BlockIdError)
    ELSE IF ~heightOk(L, req.block) THEN Reject(req, HeightError(lastHeight(L) + 1))
    ELSE Settle(req)

\* Steps 1 and 2: the height query, then the id comparison.
CheckHeightAndId(L, req) ==
    IF ~heightOk(L, req.block) THEN Reject(req, HeightError(lastHeight(L) + 1))
    ELSE IF ~idOk(req.block) THEN Reject(req, BlockIdError)
    ELSE Settle(req)

\* Fault variant: the spent flag of the row is not looked at.
neverSpent(row) == FALSE

isSpent(row) == row.spent

\* Fault variant: the lookup also sees the outputs of the block's own transactions.
lookupSeesBlockOutputs(L, req) ==
    LET txs == req.block.transactions
        tx == txs[req.ti]
        input == tx.inputs[req.ii]
        own == UNION {{[tx_id |-> txs[u].id, output_index |-> i - 1,
                        address |-> txs[u].outputs[i].address,
                        value |-> txs[u].outputs[i].value, spent |-> FALSE] :
                           i \in 1..Len(txs[u].outputs)} : u \in 1..Len(txs)}
        rows == utxoRows(L, input.txId, input.index)
                    \cup {o \in own : o.tx_id = input.txId /\ o.output_index = input.index}
    IN  IF rows = {} THEN Reject(req, InputNotFoundError(input))
        ELSE LET row == CHOOSE o \in rows : TRUE
             IN  IF isSpent(row) THEN Reject(req, InputSpentError(input))
                 ELSE Settle([req EXCEPT !.ii = @ + 1, !.inputSum = @ + row.value])

\* Fault variant: an input without a row counts as an unspent output of value 0.
lookupTreatsMissingAsZero(L, req) ==
    LET tx == req.block.transactions[req.ti]
        input == tx.inputs[req.ii]
        rows == utxoRows(L, input.txId, input.index)
    IN  IF rows = {} THEN Settle([req EXCEPT !.ii = @ + 1])
        ELSE LET row == CHOOSE o \in rows : TRUE
             IN  IF isSpent(row) THEN Reject(req, InputSpentError(input))
                 ELSE Settle([req EXCEPT !.ii = @ + 1, !.inputSum = @ + row.value])

\* Step 3, one input: the SELECT on outputs and the two tests on its row.
LookupInput(L, req) ==
    LET tx == req.block.transactions[req.ti]
        input == tx.inputs[req.ii]
        rows == utxoRows(L, input.txId, input.index)
    IN  IF rows = {} THEN Reject(req, InputNotFoundError(input))
        ELSE LET row == CHOOSE o \in rows : TRUE
             IN  IF isSpent(row) THEN Reject(req, InputSpentError(input))
                 ELSE Settle([req EXCEPT !.ii = @ + 1, !.inputSum = @ + row.value])

\* ------------------------------------------------------------------------
\* Step 4: the statements of the apply, on the ledger W the database
\* transaction sees
\* ------------------------------------------------------------------------
\* Fault variant: on conflict the balance is overwritten, not incremented.
upsertOverwrites(bal, address, value) ==
    [a \in DOMAIN bal \cup {address} |-> IF a = address THEN value ELSE bal[a]]

upsertBalance(bal, address, value) ==
    IF address \in DOMAIN bal THEN [bal EXCEPT ![address] = @ + value]
    ELSE [a \in DOMAIN bal \cup {address} |-> IF a = address THEN value ELSE bal[a]]

\* Fault variant: the balance of the spent output's address is left alone.
subtractNothing(bal, address, value) == bal

subtractBalance(bal, address, value) ==
    IF address \in DOMAIN bal THEN [bal EXCEPT ![address] = @ - value] ELSE bal

RECURSIVE insertOutputs(_, _, _)
insertOutputs(W, tx, i) ==
    IF i >= Len(tx.outputs) THEN W
    ELSE LET output == tx.outputs[i + 1]
             row == [tx_id |-> tx.id, output_index |-> i, address |-> output.address,
                     value |-> output.value, spent |-> FALSE]
         IN  insertOutputs([W EXCEPT !.outputs = @ \cup {row},
                                     !.balances = upsertBalance(@, output.address, output.value)],
                           tx, i + 1)

markSpent(outs, txId, index) ==
    {IF o.tx_id = txId /\ o.output_index = index THEN [o EXCEPT !.spent = TRUE] ELSE o : o \in outs}

RECURSIVE insertInputs(_, _, _)
insertInputs(W, tx, k) ==
    IF k > Len(tx.inputs) THEN W
    ELSE LET input == tx.inputs[k]
             row == [tx_id |-> tx.id, referenced_tx_id |-> input.txId,
                     referenced_output_index |-> input.index]
             marked == markSpent(W.outputs, input.txId, input.index)
             rows == {o \in marked : o.tx_id = input.txId /\ o.output_index = input.index}
             bal == IF rows = {} THEN W.balances
                    ELSE LET r == CHOOSE o \in rows : TRUE
                         IN  subtractBalance(W.balances, r.address, r.value)
         IN  insertInputs([W EXCEPT !.inputs = Append(@, row), !.outputs = marked,
                                    !.balances = bal],
                          tx, k + 1)

\* Fault variant: the height column has no UNIQUE constraint.
insertBlockWithoutHeightKey(W, block) ==
    IF \E b \in W.blocks : b.id = block.id
        THEN [ok |-> FALSE, error |-> BlocksPkeyError, ledger |-> W]
    ELSE [ok |-> TRUE, error |-> "",
          ledger |-> [W EXCEPT !.blocks = @ \cup {[id |-> block.id, height |-> block.height]}]]

\* Fault variant: the blocks table has no constraint at all.
insertBlockWithoutKeys(W, block) ==
    [ok |-> TRUE, error |-> "",
     ledger |-> [W EXCEPT !.blocks = @ \cup {[id |-> block.id, height |-> block.height]}]]

\* INSERT INTO blocks: the primary key on id and the UNIQUE on height.
insertBlock(W, block) ==
    IF \E b \in W.blocks : b.id = block.id
        THEN [ok |-> FALSE, error |-> BlocksPkeyError, ledger |-> W]
    ELSE IF \E b \in W.blocks : b.height = block.height
        THEN [ok |-> FALSE, error |-> BlocksHeightKeyError, ledger |-> W]
    ELSE [ok |-> TRUE, error |-> "",
          ledger |-> [W EXCEPT !.blocks = @ \cup {[id |-> block.id, height |-> block.height]}]]

\* One iteration of the loop over block.transactions.
applyTx(W, block, tx) ==
    IF \E t \in W.transactions : t.id = tx.id
        THEN [ok |-> FALSE, error |-> TransactionsPkeyError, ledger |-> W]
    ELSE LET W1 == [W EXCEPT !.transactions = @ \cup {[id |-> tx.id, block_id |-> block.id]}]
         IN  [ok |-> TRUE, error |-> "",
              ledger |-> insertInputs(insertOutputs(W1, tx, 0), tx, 1)]

\* Fault variant: what the database transaction wrote stays.
keepWrites(L, W) == W

\* catch: ROLLBACK discards what the database transaction wrote.
rollbackTransaction(L, W) == L

\* The outcome of a step: the committed ledger and the request after it.
Outcome(L, req) == [ledger |-> L, req |-> req]

Abort(L, req, message) ==
    Outcome(rollbackTransaction(L, req.work),
            [req EXCEPT !.pc = "done", !.work = EmptyLedger, !.reply = Failure(message)])

\* Fault variant: the block row is inserted outside the database transaction.
insertBlockAutocommit(L, req) ==
    LET r == insertBlock(L, req.block) IN
    IF ~r.ok THEN Abort(L, [req EXCEPT !.work = r.ledger], r.error)
    ELSE Outcome(r.ledger, [req EXCEPT !.work = r.ledger, !.ti = 1,
                                       !.pc = IF Len(req.block.transactions) = 0
                                              THEN "commit" ELSE "tx"])

BeginAndInsertBlock(L, req) ==
    LET r == insertBlock(L, req.block) IN
    IF ~r.ok THEN Abort(L, [req EXCEPT !.work = r.ledger], r.error)
    ELSE Outcome(L, [req EXCEPT !.work = r.ledger, !.ti = 1,
                                !.pc = IF Len(req.block.transactions) = 0
                                       THEN "commit" ELSE "tx"])

ApplyTransaction(L, req) ==
    LET r == applyTx(req.work, req.block, req.block.transactions[req.ti]) IN
    IF ~r.ok THEN Abort(L, req, r.error)
    ELSE Outcome(L, [req EXCEPT !.work = r.ledger, !.ti = @ + 1,
                                !.pc = IF req.ti = Len(req.block.transactions)
                                       THEN "commit" ELSE "tx"])

Commit(L, req) ==
    Outcome(req.work, [req EXCEPT !.pc = "done", !.work = EmptyLedger, !.reply = Success])

\* One step of the handler, from one await to the next.
Step(L, req) ==
    CASE req.pc = "height" -> Outcome(L, CheckHeightAndId(L, req))
      [] req.pc = "input"  -> Outcome(L, LookupInput(L, req))
      [] req.pc = "begin"  -> BeginAndInsertBlock(L, req)
      [] req.pc = "tx"     -> ApplyTransaction(L, req)
      [] req.pc = "commit" -> Commit(L, req)

\* The whole handler when no other request runs in between.
RECURSIVE Run(_, _)
Run(L, req) ==
    IF req.pc = "done" THEN Outcome(L, req)
    ELSE LET o == Step(L, req) IN Run(o.ledger, o.req)

PostBlocks(L, block) == Run(L, NewRequest(block))

\* ------------------------------------------------------------------------
\* POST /rollback and GET /balance (section 4.3 of the specification; the
\* handlers are not in the sources, only the tests that call them)
\* ------------------------------------------------------------------------
RollbackError == "Rollback height out of range"

balanceOf(L, address) == IF address \in DOMAIN L.balances THEN L.balances[address] ELSE 0

creditBalance(bal, address, value) ==
    IF address \in DOMAIN bal THEN [bal EXCEPT ![address] = @ + value]
    ELSE [a \in DOMAIN bal \cup {address} |-> IF a = address THEN value ELSE bal[a]]

debitBalance(bal, address, value) ==
    IF address \in DOMAIN bal THEN [bal EXCEPT ![address] = @ - value] ELSE bal

\* re-mark the referenced output unspent and re-credit its address
RECURSIVE undoInputs(_, _)
undoInputs(L, rows) ==
    IF rows = <<>> THEN L
    ELSE LET row == Head(rows)
             refd == utxoRows(L, row.referenced_tx_id, row.referenced_output_index)
             unmarked == {IF o \in refd THEN [o EXCEPT !.spent = FALSE] ELSE o : o \in L.outputs}
             bal == IF refd = {} THEN L.balances
                    ELSE LET r == CHOOSE o \in refd : TRUE
                         IN  creditBalance(L.balances, r.address, r.value)
         IN  undoInputs([L EXCEPT !.outputs = unmarked, !.balances = bal], Tail(rows))

\* debit the address by the output's value and delete the output
RECURSIVE undoOutputs(_, _)
undoOutputs(L, rows) ==
    IF rows = {} THEN L
    ELSE LET row == CHOOSE o \in rows : TRUE
         IN  undoOutputs([L EXCEPT !.outputs = @ \ {o \in @ : o.tx_id = row.tx_id
                                                            /\ o.output_index = row.output_index},
                                   !.balances = debitBalance(@, row.address, row.value)],
                         rows \ {row})

undoBlock(L, b) ==
    LET txs == {t.id : t \in {t \in L.transactions : t.block_id = b.id}}
        L1 == undoInputs(L, SelectSeq(L.inputs, LAMBDA r : r.tx_id \in txs))
        L2 == undoOutputs(L1, {o \in L1.outputs : o.tx_id \in txs})
    IN  [L2 EXCEPT !.inputs = SelectSeq(@, LAMBDA r : r.tx_id \notin txs),
                   !.transactions = {t \in @ : t.id \notin txs},
                   !.blocks = @ \ {b}]

\* blocks above the target, highest first
RECURSIVE undoAbove(_, _)
undoAbove(L, targetHeight) ==
    IF lastHeight(L) <= targetHeight THEN L
    ELSE LET b == CHOOSE b \in L.blocks : b.height = lastHeight(L)
         IN  undoAbove(undoBlock(L, b), targetHeight)

rollbackTo(L, targetHeight) ==
    IF targetHeight < 0 \/ targetHeight > lastHeight(L)
        THEN [ledger |-> L, reply |-> Failure(RollbackError)]
    ELSE [ledger |-> undoAbove(L, targetHeight), reply |-> Success]

\* ------------------------------------------------------------------------
\* The requests clients send
\* ------------------------------------------------------------------------
SeqsUpTo(S, lo, hi) == UNION {[1..k -> S] : k \in lo..hi}

\* transactions of at most i inputs and o outputs, each output worth at most v
\* and the whole transaction at most MaxValue
TxsOfSize(i, o, v) ==
    [id : TxIds,
     inputs : SeqsUpTo([txId : TxIds, index : 0..(o - 1)], 0, i),
     outputs : {outs \in SeqsUpTo([address : Addresses, value : 1..v], 1, o) :
                    sumValues(outs) <= MaxValue}]

\* a block of n transactions shares the sizes among them
Txs(n) == TxsOfSize(MaxInputs \div n, MaxOutputs \div n, MaxValue \div n)

Bodies == UNION {[1..n -> Txs(n)] : n \in 1..MaxTxs}

\* a single transaction of the smallest size
SmallBodies == [1..1 -> Txs(MaxTxs)]

bodyIds(txs) == [i \in 1..Len(txs) |-> txs[i].id]

\* the right id, or the id of the same transactions at the next height
BlockIds(height, txs) == {blockId(height, bodyIds(txs)), blockId(height + 1, bodyIds(txs))}

\* Transaction ids and addresses are opaque to the handler, so clients name a
\* new transaction (a new address) with the first name that no transaction
\* (balance row) of the ledger and no earlier part of the block has yet: every
\* name in a block is either such a new name or a repeated one.
firstUnused(names, used) ==
    {names[i] : i \in {i \in 1..Len(names) :
                          /\ names[i] \notin used
                          /\ \A j \in 1..(i - 1) : names[j] \in used}}

InOrder(names, known, mentioned) ==
    \A i \in 1..Len(mentioned) :
        LET used == known \cup {mentioned[j] : j \in 1..(i - 1)}
        IN  mentioned[i] \in used \cup firstUnused(names, used)

RECURSIVE outputAddresses(_)
outputAddresses(txs) ==
    IF txs = <<>> THEN <<>>
    ELSE [i \in 1..Len(Head(txs).outputs) |-> Head(txs).outputs[i].address]
             \o outputAddresses(Tail(txs))

NamedInOrder(L, txs) ==
    /\ InOrder(TxIdSeq, {t.id : t \in L.transactions}, bodyIds(txs))
    /\ InOrder(AddressSeq, DOMAIN L.balances, outputAddresses(txs))

NoBlock == [id |-> "", height |-> 0, transactions |-> <<>>]

\* no request in flight
NoRequest ==
    [pc |-> "idle", block |-> NoBlock, ti |-> 1, ii |-> 1, inputSum |-> 0,
     work |-> EmptyLedger, reply |-> NoReply, with |-> {}]

Idle == [op |-> "none", block |-> NoBlock, target |-> 0, reply |-> NoReply, pre |-> EmptyLedger]

Install(L) ==
    /\ blocks' = L.blocks
    /\ transactions' = L.transactions
    /\ outputs' = L.outputs
    /\ inputs' = L.inputs
    /\ balances' = L.balances

Init ==
    /\ blocks = {}
    /\ transactions = {}
    /\ outputs = {}
    /\ inputs = <<>>
    /\ balances = <<>>
    /\ hist = <<>>
    /\ last = Idle
    /\ reqs = [c \in Clients |-> NoRequest]
    /\ base = EmptyLedger

\* ------------------------------------------------------------------------
\* Sequential clients: one request at a time, each handler run to its reply
\* ------------------------------------------------------------------------
Submit(block) ==
    /\ LET o == PostBlocks(Ledger, block) IN
        /\ o.req.reply.status = 200 => block.height <= MaxHeight
        /\ Install(o.ledger)
        /\ hist' = IF o.req.reply.status = 200
                   THEN Append(hist, [block |-> block, ledger |-> o.ledger]) ELSE hist
        /\ last' = [op |-> "submit", block |-> block, target |-> 0,
                    reply |-> o.req.reply, pre |-> Ledger]
        /\ UNCHANGED <<reqs, base>>

Rollback(targetHeight) ==
    /\ LET r == rollbackTo(Ledger, targetHeight) IN
        /\ Install(r.ledger)
        /\ hist' = IF r.reply.status = 200 THEN SubSeq(hist, 1, targetHeight) ELSE hist
        /\ last' = [op |-> "rollback", block |-> NoBlock, target |-> targetHeight,
                    reply |-> r.reply, pre |-> Ledger]
        /\ UNCHANGED <<reqs, base>>

\* the client takes the reply
Respond ==
    /\ last.op # "none"
    /\ last' = Idle
    /\ UNCHANGED <<ledgerVars, hist, reqs, base>>

Next ==
    \/ /\ last.op = "none"
       /\ \E txs \in {b \in Bodies : NamedInOrder(Ledger, b)} :
             Submit([id |-> blockId(lastHeight(Ledger) + 1, bodyIds(txs)),
                     height |-> lastHeight(Ledger) + 1, transactions |-> txs])
    \/ /\ last.op = "none"
       /\ \E h \in 1..(MaxHeight + 1), txs \in {b \in SmallBodies : NamedInOrder(Ledger, b)} :
             \E id \in BlockIds(h, txs) :
                 Submit([id |-> id, height |-> h, transactions |-> txs])
    \/ /\ last.op = "none"
       /\ \E targetHeight \in (-1)..(MaxHeight + 1) : Rollback(targetHeight)
    \/ Respond

Spec == Init /\ [][Next]_vars

\* ------------------------------------------------------------------------
\* Concurrent clients: each request has its own pool, hence its own
\* connection, and the handlers interleave at every await. The queries of
\* the validation read the committed ledger; the statements between BEGIN
\* and COMMIT write to work, which the commit makes the committed ledger.
\* with names the clients whose requests were in flight together with the
\* request.
\* ------------------------------------------------------------------------
inFlight(c) == reqs[c].pc \notin {"idle", "done"}

inTransaction(c) == reqs[c].pc \in {"tx", "commit"}

Start(c, block) ==
    /\ reqs[c].pc = "idle"
    /\ LET others == {d \in Clients \ {c} : inFlight(d)} IN
       reqs' = [d \in Clients |->
                  IF d = c THEN [NewRequest(block) EXCEPT !.with = others]
                  ELSE IF d \in others THEN [reqs[d] EXCEPT !.with = @ \cup {c}]
                  ELSE reqs[d]]
    /\ base' = Ledger
    /\ UNCHANGED <<ledgerVars, hist, last>>

\* the statement of client c up to its next await
Statement(c) ==
    LET o == Step(Ledger, reqs[c]) IN
    /\ Install(o.ledger)
    /\ reqs' = [reqs EXCEPT ![c] = o.req]
    /\ hist' = IF o.req.reply.status = 200
               THEN Append(hist, [block |-> reqs[c].block, ledger |-> o.ledger]) ELSE hist
    /\ UNCHANGED <<last, base>>

HeightQuery(c) == reqs[c].pc = "height" /\ Statement(c)

InputQuery(c) == reqs[c].pc = "input" /\ Statement(c)

\* INSERT INTO blocks waits while another open transaction holds an
\* uncommitted row with the same id or the same height
Begin(c) ==
    /\ reqs[c].pc = "begin"
    /\ \A d \in Clients \ {c} :
          inTransaction(d) => /\ reqs[d].block.id # reqs[c].block.id
                              /\ reqs[d].block.height # reqs[c].block.height
    /\ Statement(c)

ApplyNext(c) == reqs[c].pc = "tx" /\ Statement(c)

CommitTransaction(c) == reqs[c].pc = "commit" /\ Statement(c)

\* the client takes the reply
Finish(c) ==
    /\ reqs[c].pc = "done"
    /\ reqs' = [reqs EXCEPT ![c] = NoRequest]
    /\ UNCHANGED <<ledgerVars, hist, last, base>>

namesInFlight == UNION {{reqs[c].block.transactions[t].id :
                            t \in 1..Len(reqs[c].block.transactions)} : c \in Clients}

ConcurrentNamedInOrder(txs) ==
    /\ InOrder(TxIdSeq, {t.id : t \in transactions} \cup namesInFlight, bodyIds(txs))
    /\ InOrder(AddressSeq, DOMAIN balances, outputAddresses(txs))

NextConc ==
    \/ /\ lastHeight(Ledger) < MaxHeight
       /\ \E c \in Clients, txs \in {b \in SmallBodies : ConcurrentNamedInOrder(b)} :
             Start(c, [id |-> blockId(lastHeight(Ledger) + 1, bodyIds(txs)),
                       height |-> lastHeight(Ledger) + 1, transactions |-> txs])
    \/ \E c \in Clients : HeightQuery(c)
    \/ \E c \in Clients : InputQuery(c)
    \/ \E c \in Clients : Begin(c)
    \/ \E c \in Clients : ApplyNext(c)
    \/ \E c \in Clients : CommitTransaction(c)
    \/ \E c \in Clients : Finish(c)

SpecConc == Init /\ [][NextConc]_vars

\* at most one database transaction is open at a time, so work, taken from
\* the committed ledger at BEGIN, is what the open transaction sees
OneOpenTransaction ==
    \A c, d \in Clients : (inTransaction(c) /\ inTransaction(d)) => c = d

\* ------------------------------------------------------------------------
\* Helpers of the properties
\* ------------------------------------------------------------------------
RECURSIVE SumNums(_)
SumNums(nums) == IF nums = <<>> THEN 0 ELSE Head(nums) + SumNums(Tail(nums))

RECURSIVE SumRows(_)
SumRows(rows) ==
    IF rows = {} THEN 0
    ELSE LET r == CHOOSE o \in rows : TRUE IN r.value + SumRows(rows \ {r})

unspentTotal(L, address) ==
    SumRows({o \in L.outputs : o.address = address /\ ~o.spent})

RECURSIVE allInputs(_)
allInputs(txs) == IF txs = <<>> THEN <<>> ELSE Head(txs).inputs \o allInputs(Tail(txs))

RECURSIVE allOutputs(_)
allOutputs(txs) == IF txs = <<>> THEN <<>> ELSE Head(txs).outputs \o allOutputs(Tail(txs))

\* what the outputs of the block credit to the address
credited(block, address) ==
    LET outs == allOutputs(block.transactions)
    IN  SumNums([i \in 1..Len(outs) |->
                    IF outs[i].address = address THEN outs[i].value ELSE 0])

\* what the inputs of the block take from the address, by the outputs of L
debited(L, block, address) ==
    LET ins == allInputs(block.transactions)
    IN  SumNums([k \in 1..Len(ins) |->
                    SumRows({o \in utxoRows(L, ins[k].txId, ins[k].index) :
                                o.address = address})])

submitted == last.op = "submit"
accepted == submitted /\ last.reply.status = 200
rejected == submitted /\ last.reply.status = 400

ApplyErrors == {BlocksPkeyError, BlocksHeightKeyError, TransactionsPkeyError}

\* ------------------------------------------------------------------------
\* C1. Balance consistency: in every committed state, for every address the
\* stored balance equals the sum of the values of the unspent outputs of
\* that address.
\* ------------------------------------------------------------------------
C1_BalanceConsistency ==
    \A a \in Addresses : balanceOf(Ledger, a) = unspentTotal(Ledger, a)

\* ------------------------------------------------------------------------
\* C2. No double-spend: every output (txId, index) is referenced by at most
\* one input row of the ledger, two inputs of one transaction and inputs of
\* two transactions of one block included.
\* ------------------------------------------------------------------------
C2_NoDoubleSpend ==
    \A i, j \in 1..Len(inputs) :
        (/\ inputs[i].referenced_tx_id = inputs[j].referenced_tx_id
         /\ inputs[i].referenced_output_index = inputs[j].referenced_output_index)
            => i = j

\* ------------------------------------------------------------------------
\* C4. Apply is all-or-nothing: a submission whose apply step fails after the
\* block row was inserted returns an error and leaves every table as it was;
\* an accepted one has its block row, all its transactions, outputs, input
\* rows, spent marks and balance changes; and every stored block has all of
\* its transactions, outputs and spent marks.
\* ------------------------------------------------------------------------
FullyApplied(pre, block, L) ==
    LET txs == block.transactions IN
    /\ L.blocks = pre.blocks \cup {[id |-> block.id, height |-> block.height]}
    /\ L.transactions = pre.transactions
                            \cup {[id |-> txs[t].id, block_id |-> block.id] : t \in 1..Len(txs)}
    /\ \A t \in 1..Len(txs) :
        /\ \A i \in 1..Len(txs[t].outputs) :
              \E o \in L.outputs :
                  /\ o.tx_id = txs[t].id /\ o.output_index = i - 1
                  /\ o.address = txs[t].outputs[i].address
                  /\ o.value = txs[t].outputs[i].value
        /\ \A k \in 1..Len(txs[t].inputs) :
              /\ \A o \in utxoRows(L, txs[t].inputs[k].txId, txs[t].inputs[k].index) : o.spent
              /\ \E n \in 1..Len(L.inputs) :
                    L.inputs[n] = [tx_id |-> txs[t].id,
                                   referenced_tx_id |-> txs[t].inputs[k].txId,
                                   referenced_output_index |-> txs[t].inputs[k].index]
    /\ Len(L.inputs) = Len(pre.inputs) + Len(allInputs(txs))
    /\ Cardinality(L.outputs) = Cardinality(pre.outputs) + Len(allOutputs(txs))
    /\ \A a \in Addresses :
          balanceOf(L, a) = balanceOf(pre, a) + credited(block, a) - debited(pre, block, a)

StoredBlockComplete(h) ==
    LET txs == hist[h].block.transactions IN
    /\ [id |-> hist[h].block.id, height |-> h] \in blocks
    /\ \A t \in 1..Len(txs) :
        /\ [id |-> txs[t].id, block_id |-> hist[h].block.id] \in transactions
        /\ \A i \in 1..Len(txs[t].outputs) : utxoRows(Ledger, txs[t].id, i - 1) # {}
        /\ \A k \in 1..Len(txs[t].inputs) :
              \A o \in utxoRows(Ledger, txs[t].inputs[k].txId, txs[t].inputs[k].index) : o.spent

C4_ApplyAllOrNothing ==
    /\ (rejected /\ last.reply.error \in ApplyErrors) => Ledger = last.pre
    /\ accepted => FullyApplied(last.pre, last.block, Ledger)
    /\ \A h \in 1..Len(hist) : StoredBlockComplete(h)
    /\ \A b \in blocks : b.height \in 1..Len(hist)

\* a block whose second transaction repeats the id of its first fails in the
\* apply after the first transaction's rows were written
C4_Witness ==
    /\ rejected
    /\ last.reply.error = TransactionsPkeyError
    /\ Len(last.block.transactions) = 2
    /\ last.block.transactions[1].id = last.block.transactions[2].id
    /\ Len(last.block.transactions[1].outputs) > 0
    /\ Ledger = last.pre

\* ------------------------------------------------------------------------
\* C5. A submitted block whose height is not the highest stored height plus
\* one (0 when the ledger is empty), skipping ahead or repeating a height,
\* is rejected with the height error and the ledger is unchanged.
\* ------------------------------------------------------------------------
C5_HeightMismatchRejected ==
    (submitted /\ last.block.height # lastHeight(last.pre) + 1)
        => /\ last.reply = Failure(HeightError(lastHeight(last.pre) + 1))
           /\ Ledger = last.pre

C5_Witness ==
    /\ rejected
    /\ lastHeight(last.pre) >= 1
    /\ last.block.height = lastHeight(last.pre)
    /\ last.reply.error = HeightError(last.block.height + 1)
    /\ Ledger = last.pre

\* ------------------------------------------------------------------------
\* What the validation rules say of a block, stated on the ledger L alone
\* ------------------------------------------------------------------------
derivedId(block) == blockId(block.height, txIdsOf(block))

rightHeader(L, block) ==
    /\ block.height = lastHeight(L) + 1
    /\ block.id = derivedId(block)

exists(L, input) == utxoRows(L, input.txId, input.index) # {}

existsUnspent(L, input) ==
    /\ exists(L, input)
    /\ \A o \in utxoRows(L, input.txId, input.index) : ~o.spent

existsSpent(L, input) ==
    /\ exists(L, input)
    /\ \A o \in utxoRows(L, input.txId, input.index) : o.spent

\* the values of the outputs the inputs reference, summed input by input
referencedSum(L, ins) ==
    SumNums([k \in 1..Len(ins) |-> SumRows(utxoRows(L, ins[k].txId, ins[k].index))])

exempt(block, tx) == block.height = 1 /\ Len(tx.inputs) = 0

txPasses(L, block, tx) ==
    \/ exempt(block, tx)
    \/ /\ \A k \in 1..Len(tx.inputs) : existsUnspent(L, tx.inputs[k])
       /\ referencedSum(L, tx.inputs) = sumValues(tx.outputs)

\* every check before input k of transaction t passes
passesUpTo(L, block, t, k) ==
    /\ rightHeader(L, block)
    /\ \A u \in 1..(t - 1) : txPasses(L, block, block.transactions[u])
    /\ \A j \in 1..(k - 1) : existsUnspent(L, block.transactions[t].inputs[j])

\* ------------------------------------------------------------------------
\* C7. A submitted block whose id differs from the id derived from its
\* height and its ordered transaction ids is rejected with the block id
\* error before anything is persisted; every stored block's id is the id
\* derived from its height and ordered transaction ids.
\* ------------------------------------------------------------------------
StoredIdsDerived ==
    /\ \A h \in 1..Len(hist) :
          /\ hist[h].block.height = h
          /\ hist[h].block.id = derivedId(hist[h].block)
          /\ [id |-> hist[h].block.id, height |-> h] \in blocks
    /\ \A b \in blocks : b.height \in 1..Len(hist) /\ b.id = hist[b.height].block.id

\* the claim as stated: whatever the height of the block
C7_AsStated ==
    /\ (submitted /\ last.block.id # derivedId(last.block))
          => (last.reply = Failure(BlockIdError) /\ Ledger = last.pre)
    /\ StoredIdsDerived

\* amended: for a block at the expected height
C7_InvalidBlockIdRejected ==
    /\ (/\ submitted
        /\ last.block.height = lastHeight(last.pre) + 1
        /\ last.block.id # derivedId(last.block))
          => (last.reply = Failure(BlockIdError) /\ Ledger = last.pre)
    /\ StoredIdsDerived

C7_Witness ==
    /\ rejected
    /\ last.block.height = lastHeight(last.pre) + 1
    /\ last.block.id # derivedId(last.block)
    /\ last.reply.error = BlockIdError
    /\ Len(hist) >= 1

\* ------------------------------------------------------------------------
\* C8. Value conservation: every applied transaction other than a zero-input
\* transaction of the height-1 block has the sum of the values of the
\* outputs its inputs reference equal to the sum of its own output values;
\* a block with a transaction where the sums differ is rejected with the sum
\* error; a zero-input transaction of the height-1 block is accepted
\* whatever its output sum.
\* ------------------------------------------------------------------------
inputRowsOf(txId) == SelectSeq(inputs, LAMBDA r : r.tx_id = txId)

Conserved ==
    \A t \in transactions :
        LET rows == inputRowsOf(t.id)
            atGenesis == \E b \in blocks : b.id = t.block_id /\ b.height = 1
        IN  \/ atGenesis /\ rows = <<>>
            \/ SumNums([k \in 1..Len(rows) |->
                          SumRows(utxoRows(Ledger, rows[k].referenced_tx_id,
                                           rows[k].referenced_output_index))])
                 = SumRows({o \in outputs : o.tx_id = t.id})

CoinbaseAccepted ==
    (/\ submitted
     /\ rightHeader(last.pre, last.block)
     /\ last.block.height = 1
     /\ \A t \in 1..Len(last.block.transactions) :
           /\ Len(last.block.transactions[t].inputs) = 0
           /\ \A u \in 1..(t - 1) : last.block.transactions[u].id # last.block.transactions[t].id)
        => accepted

sumsDifferIn(L, block, tx) ==
    /\ ~exempt(block, tx)
    /\ referencedSum(L, tx.inputs) # sumValues(tx.outputs)

\* the claim as stated: whatever else is wrong with the block
C8_AsStated ==
    /\ Conserved
    /\ (/\ submitted
        /\ \E t \in 1..Len(last.block.transactions) :
              sumsDifferIn(last.pre, last.block, last.block.transactions[t]))
          => (/\ \E t \in 1..Len(last.block.transactions) :
                    last.reply = Failure(SumError(last.block.transactions[t]))
              /\ Ledger = last.pre)
    /\ CoinbaseAccepted

\* amended: when every check before the sum comparison of that transaction passes
C8_ValueConservation ==
    /\ Conserved
    /\ submitted =>
          \A t \in 1..Len(last.block.transactions) :
              LET tx == last.block.transactions[t] IN
              (/\ passesUpTo(last.pre, last.block, t, Len(tx.inputs) + 1)
               /\ sumsDifferIn(last.pre, last.block, tx))
                  => (last.reply = Failure(SumError(tx)) /\ Ledger = last.pre)
    /\ CoinbaseAccepted

\* a block above height 1 spends existing unspent outputs with unequal sums
C8_Witness ==
    /\ rejected
    /\ last.block.height = 2
    /\ \E t \in 1..Len(last.block.transactions) :
          LET tx == last.block.transactions[t] IN
          /\ Len(tx.inputs) > 0
          /\ passesUpTo(last.pre, last.block, t, Len(tx.inputs) + 1)
          /\ sumsDifferIn(last.pre, last.block, tx)
          /\ last.reply.error = SumError(tx)
    /\ \E t \in transactions : inputRowsOf(t.id) = <<>>

\* ------------------------------------------------------------------------
\* C9. A block at the correct height with a correct id that has an input
\* referencing an output already marked spent by a previously applied block
\* is rejected with the spent error, and the ledger is unchanged.
\* ------------------------------------------------------------------------
\* the claim as stated: wherever in the block that input stands
C9_AsStated ==
    (/\ submitted
     /\ rightHeader(last.pre, last.block)
     /\ \E k \in 1..Len(allInputs(last.block.transactions)) :
           existsSpent(last.pre, allInputs(last.block.transactions)[k]))
        => (/\ \E k \in 1..Len(allInputs(last.block.transactions)) :
                  last.reply = Failure(InputSpentError(allInputs(last.block.transactions)[k]))
            /\ Ledger = last.pre)

\* amended: when every check before that input passes
C9_SpentInputRejected ==
    submitted =>
        \A t \in 1..Len(last.block.transactions) :
            \A k \in 1..Len(last.block.transactions[t].inputs) :
                LET input == last.block.transactions[t].inputs[k] IN
                (/\ passesUpTo(last.pre, last.block, t, k)
                 /\ existsSpent(last.pre, input))
                    => (last.reply = Failure(InputSpentError(input)) /\ Ledger = last.pre)

C9_Witness ==
    /\ rejected
    /\ \E t \in 1..Len(last.block.transactions) :
          \E k \in 1..Len(last.block.transactions[t].inputs) :
              LET input == last.block.transactions[t].inputs[k] IN
              /\ passesUpTo(last.pre, last.block, t, k)
              /\ existsSpent(last.pre, input)
              /\ \E n \in 1..Len(last.pre.inputs) :
                    /\ last.pre.inputs[n].referenced_tx_id = input.txId
                    /\ last.pre.inputs[n].referenced_output_index = input.index
              /\ last.reply.error = InputSpentError(input)
    /\ Ledger = last.pre

\* ------------------------------------------------------------------------
\* C10. After rollback to height h the ledger is the one right after block h
\* was applied: every block, transaction, output and input row above h is
\* gone, every output spent above h is unspent again, and every balance is
\* back to its value at height h (0 for an address only credited above h).
\* ------------------------------------------------------------------------
ledgerAt(history, h) == IF h = 0 THEN EmptyLedger ELSE history[h].ledger

rolledBack == last.op = "rollback" /\ last.reply.status = 200

C10_RollbackRestores ==
    rolledBack =>
        LET then == ledgerAt(hist, last.target) IN
        /\ blocks = then.blocks
        /\ transactions = then.transactions
        /\ outputs = then.outputs
        /\ inputs = then.inputs
        /\ \A a \in Addresses : balanceOf(Ledger, a) = balanceOf(then, a)
        /\ lastHeight(Ledger) = last.target

\* a rollback below a block that spent an output and credited a new address
C10_Witness ==
    /\ rolledBack
    /\ last.target < lastHeight(last.pre)
    /\ \E o \in outputs : ~o.spent /\ [o EXCEPT !.spent = TRUE] \in last.pre.outputs
    /\ \E a \in Addresses :
          /\ balanceOf(last.pre, a) > 0
          /\ a \notin DOMAIN ledgerAt(hist, last.target).balances
          /\ balanceOf(Ledger, a) = 0

\* ------------------------------------------------------------------------
\* C3. Two submissions that both spend the same unspent output and run
\* concurrently, their reads and writes interleaved in any order: exactly
\* one succeeds, the other is rejected with the spent error or fails in the
\* apply, and the final ledger is the one the winner alone produces.
\* ------------------------------------------------------------------------
together(c, d) ==
    /\ c # d
    /\ reqs[c].pc = "done" /\ reqs[d].pc = "done"
    /\ d \in reqs[c].with /\ c \in reqs[d].with

spendSameOutput(L, b1, b2) ==
    \E i \in 1..Len(allInputs(b1.transactions)), j \in 1..Len(allInputs(b2.transactions)) :
        /\ allInputs(b1.transactions)[i] = allInputs(b2.transactions)[j]
        /\ existsUnspent(L, allInputs(b1.transactions)[i])

acceptedAlone(L, block) == PostBlocks(L, block).req.reply.status = 200

raceOnOutput(c, d) ==
    /\ together(c, d)
    /\ spendSameOutput(base, reqs[c].block, reqs[d].block)
    /\ acceptedAlone(base, reqs[c].block)
    /\ acceptedAlone(base, reqs[d].block)

spentErrors(block) ==
    {InputSpentError(allInputs(block.transactions)[k]) :
        k \in 1..Len(allInputs(block.transactions))}

oneWins(c, d, loserErrors) ==
    \E w \in {c, d} :
        LET l == CHOOSE x \in {c, d} : x # w IN
        /\ reqs[w].reply = Success
        /\ reqs[l].reply.status = 400
        /\ reqs[l].reply.error \in loserErrors
        /\ Ledger = PostBlocks(base, reqs[w].block).ledger

\* the claim as stated: the loser sees the spent error or an apply failure
C3_AsStated ==
    \A c, d \in Clients :
        raceOnOutput(c, d)
            => oneWins(c, d, spentErrors(reqs[c].block) \cup spentErrors(reqs[d].block)
                                 \cup ApplyErrors)

\* amended: or the height error, when its height query runs after the
\* winner's commit
C3_OneWinner ==
    \A c, d \in Clients :
        raceOnOutput(c, d)
            => oneWins(c, d, spentErrors(reqs[c].block) \cup spentErrors(reqs[d].block)
                                 \cup ApplyErrors \cup {HeightError(lastHeight(base) + 2)})

\* the loser passed its validation before the winner committed and failed
\* in its own apply
C3_Witness ==
    \E c, d \in Clients :
        /\ raceOnOutput(c, d)
        /\ reqs[c].reply = Success
        /\ reqs[d].reply.error \in ApplyErrors
        /\ reqs[c].block.id # reqs[d].block.id

\* ------------------------------------------------------------------------
\* C6. In every committed state, those reached by concurrent submissions
\* included, the stored block heights are exactly 1..n for some n >= 0, one
\* block per height.
\* ------------------------------------------------------------------------
C6_ContiguousHeights ==
    {b.height : b \in blocks} = 1..Cardinality(blocks)

\* two blocks of one height were in flight together, over a ledger of two blocks
C6_Witness ==
    /\ Cardinality(blocks) = 2
    /\ \E c, d \in Clients :
          /\ together(c, d)
          /\ reqs[c].block.height = reqs[d].block.height
          /\ reqs[c].block.id # reqs[d].block.id
          /\ reqs[c].reply = Success
          /\ reqs[d].reply.status = 400

\* ------------------------------------------------------------------------
\* C11. Rollback and apply are exact inverses: from a ledger of height n and
\* for any h <= n, the rollback to h succeeds, every block that stood above
\* h is accepted when the blocks are submitted again in order, and the
\* outputs with their spent flags and the balances are then those from
\* before the rollback.
\* ------------------------------------------------------------------------
\* POST /blocks for the blocks recorded at heights k, k + 1, ... in order
RECURSIVE resubmit(_, _, _)
resubmit(L, history, k) ==
    IF k > Len(history) THEN [ok |-> TRUE, ledger |-> L]
    ELSE LET o == PostBlocks(L, history[k].block)
         IN  IF o.req.reply # Success THEN [ok |-> FALSE, ledger |-> o.ledger]
             ELSE resubmit(o.ledger, history, k + 1)

sameLedgerState(L, M) ==
    /\ L.blocks = M.blocks
    /\ L.outputs = M.outputs
    /\ \A a \in Addresses : balanceOf(L, a) = balanceOf(M, a)

C11_RollbackApplyInverse ==
    \A h \in 0..Len(hist) :
        LET r == rollbackTo(Ledger, h)
            again == resubmit(r.ledger, hist, h + 1)
        IN  /\ r.reply = Success
            /\ again.ok
            /\ sameLedgerState(again.ledger, Ledger)

\* a ledger of two blocks, the second spending an output of the first to a
\* new address: the rollback below it changes outputs and balances, and the
\* resubmission brings them back
C11_Witness ==
    /\ Len(hist) = 2
    /\ lastHeight(Ledger) = 2
    /\ \E o \in outputs : o.spent
    /\ \E a \in Addresses : balanceOf(Ledger, a) # balanceOf(rollbackTo(Ledger, 1).ledger, a)
    /\ rollbackTo(Ledger, 1).ledger.outputs # outputs
    /\ rollbackTo(Ledger, 0).ledger.outputs = {}
    /\ resubmit(rollbackTo(Ledger, 0).ledger, hist, 1).ok
    /\ sameLedgerState(resubmit(rollbackTo(Ledger, 0).ledger, hist, 1).ledger, Ledger)

\* ------------------------------------------------------------------------
\* C12. A reader of the ledger that runs while a block is being submitted
\* never sees a half-applied block: every committed state, which is all a
\* query of another connection reads, is the state right after the latest
\* accepted block, and that state has all of the block's rows, spent marks
\* and balance changes over the state before it; of a block whose database
\* transaction is still open it has nothing.
\* ------------------------------------------------------------------------
openTransactionHidden(c) ==
    inTransaction(c) =>
        /\ [id |-> reqs[c].block.id, height |-> reqs[c].block.height] \notin blocks
        /\ \A t \in transactions : t.block_id # reqs[c].block.id

C12_NoTornRead ==
    /\ Ledger = ledgerAt(hist, Len(hist))
    /\ \A h \in 1..Len(hist) :
          FullyApplied(ledgerAt(hist, h - 1), hist[h].block, hist[h].ledger)
    /\ \A c \in Clients : openTransactionHidden(c)

\* a request is about to commit a block whose rows it has written inside
\* its database transaction, above an earlier block, while the request of
\* another client is reading the ledger for its validation
C12_Witness ==
    \E c, d \in Clients :
        /\ reqs[c].pc = "commit"
        /\ reqs[c].block.height = 2
        /\ reqs[c].work.outputs # outputs
        /\ reqs[c].work.balances # balances
        /\ \E o \in reqs[c].work.outputs : o.spent
        /\ reqs[d].pc \in {"height", "input"}
        /\ Ledger = ledgerAt(hist, 1)

\* ------------------------------------------------------------------------
\* C13. Validation sees the spends of the block under validation: a block
\* in which an output that is unspent in the ledger is referenced by two
\* inputs, of one transaction or of two, is rejected with the spent error
\* at the second of them (every check before it passing), and the ledger is
\* unchanged.
\* ------------------------------------------------------------------------
\* input k of transaction t repeats an input that stands before it in the block
repeatsEarlierInput(block, t, k) ==
    LET input == block.transactions[t].inputs[k] IN
    \/ \E j \in 1..(k - 1) : block.transactions[t].inputs[j] = input
    \/ \E u \in 1..(t - 1) :
          \E j \in 1..Len(block.transactions[u].inputs) :
              block.transactions[u].inputs[j] = input

C13_ProvisionalSpends ==
    submitted =>
        \A t \in 1..Len(last.block.transactions) :
            \A k \in 1..Len(last.block.transactions[t].inputs) :
                LET input == last.block.transactions[t].inputs[k] IN
                (/\ passesUpTo(last.pre, last.block, t, k)
                 /\ existsUnspent(last.pre, input)
                 /\ repeatsEarlierInput(last.block, t, k))
                    => (last.reply = Failure(InputSpentError(input)) /\ Ledger = last.pre)

\* ------------------------------------------------------------------------
\* C14. A block at the correct height with a correct id that has an input
\* referencing an output (txId, index) the ledger does not have is rejected
\* with the not-found error, and the ledger is unchanged.
\* ------------------------------------------------------------------------
notFoundErrors(block) ==
    {InputNotFoundError(allInputs(block.transactions)[k]) :
        k \in 1..Len(allInputs(block.transactions))}

\* the claim as stated: wherever in the block that input stands
C14_AsStated ==
    (/\ submitted
     /\ rightHeader(last.pre, last.block)
     /\ \E k \in 1..Len(allInputs(last.block.transactions)) :
           ~exists(last.pre, allInputs(last.block.transactions)[k]))
        => (/\ last.reply.status = 400
            /\ last.reply.error \in notFoundErrors(last.block)
            /\ Ledger = last.pre)

\* amended: when every check before that input passes
C14_InputNotFoundRejected ==
    submitted =>
        \A t \in 1..Len(last.block.transactions) :
            \A k \in 1..Len(last.block.transactions[t].inputs) :
                LET input == last.block.transactions[t].inputs[k] IN
                (/\ passesUpTo(last.pre, last.block, t, k)
                 /\ ~exists(last.pre, input))
                    => (last.reply = Failure(InputNotFoundError(input)) /\ Ledger = last.pre)

\* over a ledger that has outputs, the second input of a transaction names
\* an output the ledger does not have
C14_Witness ==
    /\ rejected
    /\ last.pre.outputs # {}
    /\ \E t \in 1..Len(last.block.transactions) :
          LET tx == last.block.transactions[t] IN
          /\ Len(tx.inputs) = 2
          /\ passesUpTo(last.pre, last.block, t, 2)
          /\ ~exists(last.pre, tx.inputs[2])
          /\ last.reply.error = InputNotFoundError(tx.inputs[2])
    /\ Ledger = last.pre

\* ------------------------------------------------------------------------
\* C15. The checks run in a fixed order and stop at the first failure: a
\* wrong height gives the height error whatever the id and transactions; a
\* right height with a wrong id gives the block id error whatever the
\* transactions; otherwise the reply names the first failing transaction in
\* block order and, within it, its first failing input in order (the sum
\* comparison coming after the inputs).
\* ------------------------------------------------------------------------
least(S) == CHOOSE n \in S : \A m \in S : n <= m

\* the reason of the first failing check of transaction tx
txFailure(L, tx) ==
    LET bad == {k \in 1..Len(tx.inputs) : ~existsUnspent(L, tx.inputs[k])} IN
    IF bad = {} THEN SumError(tx)
    ELSE IF exists(L, tx.inputs[least(bad)]) THEN InputSpentError(tx.inputs[least(bad)])
    ELSE InputNotFoundError(tx.inputs[least(bad)])

\* the reason of the first failing check of the block, "" when none fails
firstFailure(L, block) ==
    LET failing == {t \in 1..Len(block.transactions) :
                       ~txPasses(L, block, block.transactions[t])}
    IN  IF block.height # lastHeight(L) + 1 THEN HeightError(lastHeight(L) + 1)
        ELSE IF block.id # derivedId(block) THEN BlockIdError
        ELSE IF failing # {} THEN txFailure(L, block.transactions[least(failing)])
        ELSE ""

C15_ChecksInOrder ==
    submitted =>
        IF firstFailure(last.pre, last.block) # ""
        THEN /\ last.reply = Failure(firstFailure(last.pre, last.block))
             /\ Ledger = last.pre
        ELSE \/ last.reply = Success
             \/ last.reply.status = 400 /\ last.reply.error \in ApplyErrors

\* both transactions of a block fail, the first on its sums and the second
\* on a missing input: the reply names the first
C15_Witness ==
    /\ rejected
    /\ rightHeader(last.pre, last.block)
    /\ Len(last.block.transactions) = 2
    /\ last.block.transactions[1].id # last.block.transactions[2].id
    /\ ~txPasses(last.pre, last.block, last.block.transactions[1])
    /\ ~txPasses(last.pre, last.block, last.block.transactions[2])
    /\ txFailure(last.pre, last.block.transactions[1]) = SumError(last.block.transactions[1])
    /\ txFailure(last.pre, last.block.transactions[2])
          \in notFoundErrors(last.block)
    /\ last.reply.error = SumError(last.block.transactions[1])

\* ------------------------------------------------------------------------
\* C16. Minting is possible only in the height-1 block: a block of height
\* greater than 1 that contains a transaction with no inputs and a positive
\* output sum is rejected with the sum error, and the ledger is unchanged.
\* ------------------------------------------------------------------------
mints(tx) == Len(tx.inputs) = 0 /\ sumValues(tx.outputs) > 0

\* the claim as stated: wherever in the block that transaction stands
C16_AsStated ==
    (/\ submitted
     /\ rightHeader(last.pre, last.block)
     /\ last.block.height > 1
     /\ \E t \in 1..Len(last.block.transactions) : mints(last.block.transactions[t]))
        => (/\ \E t \in 1..Len(last.block.transactions) :
                  /\ mints(last.block.transactions[t])
                  /\ last.reply = Failure(SumError(last.block.transactions[t]))
            /\ Ledger = last.pre)

\* amended: such a block is always rejected and changes nothing, with the
\* sum error when every check before that transaction passes
C16_MintingOnlyAtGenesis ==
    (/\ submitted
     /\ last.block.height > 1
     /\ \E t \in 1..Len(last.block.transactions) : mints(last.block.transactions[t]))
        => /\ last.reply.status = 400
           /\ Ledger = last.pre
           /\ \A t \in 1..Len(last.block.transactions) :
                 (/\ mints(last.block.transactions[t])
                  /\ passesUpTo(last.pre, last.block, t, 1))
                     => last.reply = Failure(SumError(last.block.transactions[t]))

\* the second transaction of a height-2 block has no inputs, after a first
\* one that spends an output of the ledger correctly
C16_Witness ==
    /\ rejected
    /\ last.block.height = 2
    /\ Len(last.block.transactions) = 2
    /\ Len(last.block.transactions[1].inputs) = 1
    /\ mints(last.block.transactions[2])
    /\ passesUpTo(last.pre, last.block, 2, 1)
    /\ last.reply.error = SumError(last.block.transactions[2])
    /\ Ledger = last.pre

\* ------------------------------------------------------------------------
\* C17. A rollback to a negative target or to a target above the current
\* height fails and changes no state; a rollback to the current height
\* succeeds and changes no state.
\* ------------------------------------------------------------------------
rollbackAsked == last.op = "rollback"

\* the number of stored blocks, which is the current height
storedHeight(L) == Cardinality(L.blocks)

C17_RollbackRange ==
    rollbackAsked =>
        /\ (last.target < 0 \/ last.target > storedHeight(last.pre))
              => (last.reply = Failure(RollbackError) /\ Ledger = last.pre)
        /\ (last.target = storedHeight(last.pre))
              => (last.reply = Success /\ Ledger = last.pre)

\* a rollback to the height above the current one, on a ledger with blocks
C17_Witness ==
    /\ rollbackAsked
    /\ storedHeight(last.pre) >= 1
    /\ last.target = storedHeight(last.pre) + 1
    /\ last.reply = Failure(RollbackError)
    /\ Ledger = last.pre
    /\ outputs # {}

\* ------------------------------------------------------------------------
\* C18. After any sequence of block submissions every stored address
\* balance is greater than or equal to 0.
\* ------------------------------------------------------------------------
C18_BalancesNonNegative ==
    \A a \in DOMAIN balances : balances[a] >= 0

\* ------------------------------------------------------------------------
\* C19. Total supply is fixed by the height-1 block: after any sequence of
\* block submissions the sum of all address balances equals the sum of the
\* output values of the zero-input transactions of the height-1 block, so
\* no accepted block above height 1 changes the total.
\* ------------------------------------------------------------------------
totalBalance(L) == SumNums([i \in 1..Len(AddressSeq) |-> balanceOf(L, AddressSeq[i])])

\* the outputs of the transactions of the height-1 block that have no input rows
genesisMint(L) ==
    SumRows({o \in L.outputs :
                /\ \E t \in L.transactions, b \in L.blocks :
                      t.id = o.tx_id /\ t.block_id = b.id /\ b.height = 1
                /\ \A n \in 1..Len(L.inputs) : L.inputs[n].tx_id # o.tx_id})

C19_TotalSupplyFixed ==
    /\ totalBalance(Ledger) = genesisMint(Ledger)
    /\ (accepted /\ last.block.height > 1) => totalBalance(Ledger) = totalBalance(last.pre)

\* an accepted block above height 1 moves value from one address to another
C19_Witness ==
    /\ accepted
    /\ last.block.height = 2
    /\ \E a \in Addresses : balanceOf(Ledger, a) < balanceOf(last.pre, a)
    /\ \E a \in Addresses : balanceOf(Ledger, a) > balanceOf(last.pre, a)
    /\ totalBalance(Ledger) = genesisMint(Ledger)
    /\ genesisMint(Ledger) > 0

\* ------------------------------------------------------------------------
\* C20. An output created by a transaction of a block cannot be spent inside
\* that block: the inputs are looked up in the committed ledger only, so a
\* block in which an input of one transaction references an output of
\* another transaction of the block is rejected with the not-found error,
\* and the ledger is unchanged.
\* ------------------------------------------------------------------------
\* input k of transaction t names an output of another transaction of the block
spendsWithinBlock(block, t, k) ==
    LET input == block.transactions[t].inputs[k] IN
    \E u \in (1..Len(block.transactions)) \ {t} :
        /\ block.transactions[u].id = input.txId
        /\ input.index < Len(block.transactions[u].outputs)

\* the claim as stated: whatever the ledger already holds under that name
\* and wherever in the block the input stands
C20_AsStated ==
    (/\ submitted
     /\ rightHeader(last.pre, last.block)
     /\ \E t \in 1..Len(last.block.transactions) :
           \E k \in 1..Len(last.block.transactions[t].inputs) :
               spendsWithinBlock(last.block, t, k))
        => (/\ last.reply.status = 400
            /\ last.reply.error \in notFoundErrors(last.block)
            /\ Ledger = last.pre)

\* amended: such a block is always rejected and changes nothing, with the
\* not-found error when the ledger has no output of that name and every
\* check before the input passes
C20_NoSpendWithinBlock ==
    submitted =>
        \A t \in 1..Len(last.block.transactions) :
            \A k \in 1..Len(last.block.transactions[t].inputs) :
                spendsWithinBlock(last.block, t, k) =>
                    /\ last.reply.status = 400
                    /\ Ledger = last.pre
                    /\ (/\ passesUpTo(last.pre, last.block, t, k)
                        /\ ~exists(last.pre, last.block.transactions[t].inputs[k]))
                          => last.reply
                               = Failure(InputNotFoundError(last.block.transactions[t].inputs[k]))

\* the second transaction of a height-2 block spends the output of the
\* first, which itself spends an output of the ledger correctly
C20_Witness ==
    /\ rejected
    /\ last.block.height = 2
    /\ Len(last.block.transactions) = 2
    /\ Len(last.block.transactions[2].inputs) = 1
    /\ last.block.transactions[2].inputs[1].txId = last.block.transactions[1].id
    /\ spendsWithinBlock(last.block, 2, 1)
    /\ passesUpTo(last.pre, last.block, 2, 1)
    /\ Len(last.block.transactions[1].inputs) = 1
    /\ last.reply.error = InputNotFoundError(last.block.transactions[2].inputs[1])
    /\ Ledger = last.pre

====
